---- MODULE Spec2Model ----
(***************************************************************************)
(* hx, a hex editor for the terminal.                                      *)
(*                                                                         *)
(* Part 1: the thingy table of thingy.c, a table from byte sequences of    *)
(* 1..255 bytes to display strings: 256 direct slots for one-byte keys and *)
(* 256 singly linked chains, one per first byte, for longer keys.          *)
(* Part 2: the edit history of the editor (undo and redo).                 *)
(* Part 3: the definition lines and files the table is loaded from.        *)
(* Part 4: the search strings of the editor, parsed into byte patterns.    *)
(*                                                                         *)
(* C strings are sequences of character codes 0..255 without the closing   *)
(* NUL; a pointer to a string is the string, the null pointer is NoStr.    *)
(* A chain node lives in a heap cell; a pointer to a node is the cell's    *)
(* address, the null pointer is NULL.                                      *)
(***************************************************************************)
EXTENDS Integers, Sequences, FiniteSets, TLC

\* ------------------------------------------------------------- bounds
\* the longest key an operation is called with (the code allows 255)
MaxKeyLen == 2
\* the number of heap cells for chain nodes
MaxNodes == 2

\* ------------------------------------------------------------- values
\* the bytes keys are made of: 0x00 is the byte strdup stops at
KeyBytes == {0, 1}
\* the display strings thingy_table_assign is called with: "X", "Y"
Values == {<<88>>, <<89>>}

NULL == 0
Addr == 1..MaxNodes
Ptr == {NULL} \cup Addr
\* the null pointer of type unsigned char*
NoStr == <<-1>>
\* a search that dereferences a pointer to no live node, or never returns
Faulted == <<-2>>
Hung == <<-3>>

Max(a, b) == IF a < b THEN b ELSE a
Min(a, b) == IF a < b THEN a ELSE b

\* the keys of exactly n bytes
KeysOfLen(n) == [1..n -> KeyBytes]
Keys == UNION {KeysOfLen(n) : n \in 1..MaxKeyLen}

VARIABLES
    longest_key,  \* tbl->longest_key
    values,       \* tbl->values[256]
    mbseqs,       \* tbl->mbseqs[256]: the head of each chain
    heap,         \* the cells of struct linked_list
    status,       \* "ok", or how the process ended: "fault", "hang"
    last,         \* the last call that changed the state, and what it returned
    ever_max      \* the greatest length of a key an assignment that returned 0 had

tvars == <<longest_key, values, mbseqs, heap, status, last, ever_max>>

VARIABLES
    contents,     \* e->contents, of e->content_length bytes
    undo_stack,   \* the actions that can be undone, the latest last
    redo_stack,   \* the actions that can be redone, the next one last
    elast,        \* the last call of the editor, what it reported, how many
                  \* actions it dropped from the redo stack, for an undo or
                  \* a redo how many actions the two stacks held before it,
                  \* and for an increment that was made its offset and amount
    before,       \* <<the editor before the undo>> after an undo, and after
                  \* the redo that directly follows it; << >> otherwise
    trail,        \* the buffers the mutations of the current run found
    undone        \* how many undos have followed that run

evars == <<contents, undo_stack, redo_stack, elast, before, trail, undone>>

VARIABLES
    pc,                 \* where thingy_table_add_from_file is: "idle", or
                        \* "loop" at the fgets of its while loop
    file,               \* FILE* file: NoFile, or a handle with the lines fgets
                        \* has yet to read
    thingy_count,       \* the local of thingy_table_add_from_file
    o_thingies_loaded,  \* *o_thingies_loaded
    freturn,            \* what the last thingy_table_add_from_file returned,
                        \* -1 before the first return and during a call
    fopens,             \* how many fopen of the last call gave a handle
    fcloses             \* how many fclose the last call made

fvars == <<pc, file, thingy_count, o_thingies_loaded, freturn, fopens, fcloses>>

VARIABLES
    inputstr,     \* the string editor_parse_search_string was last called with
    parsedstr,    \* parsedstr->contents, of parsedstr->len bytes
    parse_ret,    \* what the call returned, "none" before it
    err_info      \* *err_info, as an offset into inputstr

svars == <<inputstr, parsedstr, parse_ret, err_info>>

\* a cell that holds no node
FreeCell ==
    [live |-> FALSE, length |-> 0, key |-> <<>>, value |-> NoStr, next |-> NULL, okey |-> <<>>]

\* struct linked_list.  key is the node's key as memcmp reads it; okey is not
\* a field of the struct: it is the key argument the node was made for.
Node(length, key, value, next, okey) ==
    [live |-> TRUE, length |-> length, key |-> key, value |-> value, next |-> next,
     okey |-> okey]

\* a call and what it returned (-1: it did not return)
NoCall == [op |-> "none", ret |-> 0]

Call(op, ret) == [op |-> op, ret |-> ret]

\* An array of 256 pointers is kept as the function from the indices of
\* its non-null entries to them: arr[b] is Get(arr, b, null), and arr[b] = x
\* leaves Put(arr, b, x, null).
Get(arr, b, null) == IF b \in DOMAIN arr THEN arr[b] ELSE null
Put(arr, b, x, null) ==
    IF x = null THEN [c \in DOMAIN arr \ {b} |-> arr[c]]
    ELSE [c \in DOMAIN arr \cup {b} |-> IF c = b THEN x ELSE arr[c]]

\* thingy_table_init: malloc and memset to 0
thingy_table_init ==
    /\ longest_key = 0
    /\ values = [b \in {} |-> NoStr]
    /\ mbseqs = [b \in {} |-> NULL]
    /\ heap = [a \in Addr |-> FreeCell]
    /\ status = "ok"
    /\ last = NoCall
    /\ ever_max = 0

\* memcmp(a, b, length) == 0
memcmp0(a, b, length) == \A i \in 1..length : a[i] = b[i]

\* the index of the first 0x00 of key, 0 when it has none
FirstNul(key) ==
    IF \E i \in 1..Len(key) : key[i] = 0
    THEN CHOOSE i \in 1..Len(key) : key[i] = 0 /\ \A j \in 1..(i - 1) : key[j] # 0
    ELSE 0

\* newitem->key = strdup((char*)key), as the later memcmp over length bytes
\* reads it: strdup copies up to the first 0x00, and the bytes after it lie
\* outside the copy, so they are whatever the heap holds there (garbage).  A
\* key without 0x00 is copied whole (strdup reads on past the key's end).
strdup_key(key, garbage) ==
    IF FirstNul(key) = 0 THEN key
    ELSE [i \in 1..Len(key) |-> IF i <= FirstNul(key) THEN key[i] ELSE garbage[i]]

\* The walk of a chain from the link p, comparing each node with
\* (length, key): "hit" at the first matching node, "end" at a null link
\* (prev is the node whose next holds that link, NULL for the chain's head),
\* "fault" when the link points at a cell that holds no node, "hang" when
\* more nodes were visited than exist (the chain is cyclic and has no match).
RECURSIVE Walk(_, _, _, _, _, _)
Walk(hp, p, prev, length, key, fuel) ==
    IF p = NULL THEN [kind |-> "end", at |-> NULL, prev |-> prev]
    ELSE IF ~hp[p].live THEN [kind |-> "fault", at |-> p, prev |-> prev]
    ELSE IF fuel = 0 THEN [kind |-> "hang", at |-> p, prev |-> prev]
    ELSE IF hp[p].length = length /\ memcmp0(hp[p].key, key, length)
         THEN [kind |-> "hit", at |-> p, prev |-> prev]
    ELSE Walk(hp, hp[p].next, p, length, key, fuel - 1)

\* ------------------------------------------------------------- the table
\* struct thingy_table with the heap its chains live in, as one value
Tbl ==
    [longest_key |-> longest_key, values |-> values, mbseqs |-> mbseqs, heap |-> heap,
     status |-> status]

\* what a call returns and the table it leaves.  ret = -1: the call did not
\* return.  full: the call needs more chain nodes than MaxNodes.
Ret(t, ret) == [t |-> t, ret |-> ret, full |-> FALSE]
Died(t, kind) == [t |-> [t EXCEPT !.status = kind], ret |-> -1, full |-> FALSE]
Full(t) == [t |-> t, ret |-> -1, full |-> TRUE]

\* malloc(sizeof(struct linked_list)): the lowest free cell
malloc_node(hp) == CHOOSE a \in Addr : ~hp[a].live /\ \A b \in Addr : b < a => hp[b].live

\* What the memory malloc hands out holds: next is the value newitem->next
\* keeps, since thingy_table_assign never sets it; garbage are the bytes
\* behind the copy strdup makes of the key.
Junk == [next : Ptr, garbage : [1..MaxKeyLen -> KeyBytes]]
NoJunk == [next |-> NULL, garbage |-> [i \in 1..MaxKeyLen |-> 0]]

\* thingy_table_search(tbl, length, key), key not NULL
thingy_table_search(t, length, key) ==
    IF length = 0 THEN NoStr
    ELSE IF length > t.longest_key THEN NoStr
    ELSE IF length = 1 THEN Get(t.values, key[1], NoStr)
    ELSE LET w == Walk(t.heap, Get(t.mbseqs, key[1], NULL), NULL, length, key, MaxNodes)
         IN  CASE w.kind = "hit" -> t.heap[w.at].value
               [] w.kind = "end" -> NoStr
               [] w.kind = "fault" -> Faulted
               [] w.kind = "hang" -> Hung

\* thingy_table_longest_key
thingy_table_longest_key(t) == t.longest_key

\* longest_key set to the length of every key assigned
raise_longest_key_always(lk, length) == length

\* if (tbl->longest_key < length) tbl->longest_key = length
raise_longest_key(lk, length) == IF lk < length THEN length ELSE lk

\* *curitem = newitem, where curitem is &tbl->mbseqs[first_char] or the
\* address of the next field of the last node walked
link_node(t, w, first_char, a, newitem) ==
    IF w.prev = NULL
    THEN [t EXCEPT !.mbseqs = Put(t.mbseqs, first_char, a, NULL), !.heap[a] = newitem]
    ELSE [t EXCEPT !.heap = [t.heap EXCEPT ![a] = newitem, ![w.prev].next = a]]

\* thingy_table_assign(tbl, length, key, value)
thingy_table_assign(t, length, key, value, junk) ==
    IF length = 0 THEN Ret(t, 1)
    ELSE IF length = 1
    THEN Ret([t EXCEPT !.values = Put(t.values, key[1], value, NoStr),
                       !.longest_key = raise_longest_key(t.longest_key, length)], 0)
    ELSE LET w == Walk(t.heap, Get(t.mbseqs, key[1], NULL), NULL, length, key, MaxNodes)
         IN  CASE w.kind = "hit" ->
                    \* a matching key exists: replace the value
                    Ret([t EXCEPT !.heap[w.at].value = value], 0)
               [] w.kind = "end" ->
                    IF \A a \in Addr : t.heap[a].live THEN Full(t)
                    ELSE LET newitem == Node(length, strdup_key(key, junk.garbage), value,
                                             junk.next, key)
                             u == link_node(t, w, key[1], malloc_node(t.heap), newitem)
                         IN  Ret([u EXCEPT !.longest_key =
                                      raise_longest_key(t.longest_key, length)], 0)
               [] w.kind \in {"fault", "hang"} -> Died(t, w.kind)

\* *curitem_p = nextitem, after the node at w.at was freed
unlink_node(t, w, first_char) ==
    IF w.prev = NULL
    THEN [t EXCEPT !.mbseqs = Put(t.mbseqs, first_char, t.heap[w.at].next, NULL),
                   !.heap[w.at] = FreeCell]
    ELSE [t EXCEPT !.heap = [t.heap EXCEPT ![w.prev].next = t.heap[w.at].next,
                                           ![w.at] = FreeCell]]

\* thingy_table_delete(tbl, length, key), key not NULL
thingy_table_delete(t, length, key) ==
    IF length = 0 THEN Ret(t, 1)
    ELSE IF length > t.longest_key THEN Ret(t, 1)
    ELSE IF length = 1
    THEN IF Get(t.values, key[1], NoStr) = NoStr THEN Ret(t, 1)
         ELSE Ret([t EXCEPT !.values = Put(t.values, key[1], NoStr, NoStr)], 0)
    ELSE LET w == Walk(t.heap, Get(t.mbseqs, key[1], NULL), NULL, length, key, MaxNodes)
         IN  CASE w.kind = "hit" -> Ret(unlink_node(t, w, key[1]), 0)
               [] w.kind = "end" -> Ret(t, 1)
               [] w.kind \in {"fault", "hang"} -> Died(t, w.kind)

\* ------------------------------------------------------------- loading
\* the index of the first character of s from index i on that is not '=',
\* Len(s) + 1 when there is none: strtok skipping the delimiters
skip_delims(s, i) ==
    IF i > Len(s) THEN i
    ELSE CHOOSE j \in i..(Len(s) + 1) :
            /\ j = Len(s) + 1 \/ s[j] # 61
            /\ \A k \in i..(j - 1) : s[k] = 61

\* the index after the last character of the token of s that starts at i:
\* strtok scanning to the next '=' or to the end of the string
token_end(s, i) ==
    IF i > Len(s) THEN i
    ELSE CHOOSE j \in i..(Len(s) + 1) :
            /\ j = Len(s) + 1 \/ s[j] = 61
            /\ \A k \in i..(j - 1) : s[k] # 61

\* key_hex = strtok(sd, "="): NoStr when the string holds no token
strtok_first(s) ==
    LET b == skip_delims(s, 1)
    IN  IF b > Len(s) THEN NoStr ELSE SubSeq(s, b, token_end(s, b) - 1)

\* value = strtok(NULL, ""): what follows the '=' that ended the first token;
\* NoStr when nothing follows it, or when the token ran to the end of the string
strtok_rest(s) ==
    LET e == token_end(s, skip_delims(s, 1))
    IN  IF e + 1 > Len(s) THEN NoStr ELSE SubSeq(s, e + 1, Len(s))

\* c is one of "0123456789ABCDEFabcdef"
IsHexDigit(c) == (c >= 48 /\ c <= 57) \/ (c >= 65 /\ c <= 70) \/ (c >= 97 /\ c <= 102)

\* strspn(s, "0123456789ABCDEFabcdef")
strspn_hex(s) ==
    CHOOSE n \in 0..Len(s) :
       /\ n = Len(s) \/ ~IsHexDigit(s[n + 1])
       /\ \A k \in 1..n : IsHexDigit(s[k])

\* what one hex digit adds to its nibble: the three ifs of the decoding loop
hex_value(c) ==
    (IF c >= 48 /\ c <= 57 THEN c - 48 ELSE 0)
    + (IF c >= 65 /\ c <= 70 THEN c + 10 - 65 ELSE 0)
    + (IF c >= 97 /\ c <= 102 THEN c + 10 - 97 ELSE 0)

\* The decoding loop: digit i (from 0) goes to nibble oi = i + keylen_hex % 2,
\* the high half of key[oi / 2] when oi is even and the low half when odd.
\* key starts as zeros and each nibble is or-ed in once, so the byte is the
\* sum of its two nibbles.
decode_key(key_pointer, keylen_hex, keylen) ==
    LET odd == keylen_hex % 2
        nibble(oi) == IF oi - odd < 0 THEN 0 ELSE hex_value(key_pointer[oi - odd + 1])
    IN  [b \in 1..keylen |-> nibble(2 * (b - 1)) * 16 + nibble(2 * (b - 1) + 1)]

\* thingy_table_add_from_string up to the call it makes: err is the value
\* returned before any call (0: none), value is NoStr for a deletion
parse_line(string) ==
    LET key_hex == strtok_first(string)
        special == IF key_hex = NoStr THEN NoStr
                   ELSE IF key_hex[1] = 42 THEN <<>>     \* '*': value = "\0"
                   ELSE IF key_hex[1] = 47 THEN <<10>>   \* '/': value = "\n"
                   ELSE NoStr
        key_pointer == IF key_hex = NoStr THEN <<>>
                       ELSE IF key_hex[1] \in {42, 47} THEN Tail(key_hex) ELSE key_hex
        keylen_hex == strspn_hex(key_pointer)
        keylen == (keylen_hex + 1) \div 2
        err == IF key_hex = NoStr THEN 1
               ELSE IF keylen_hex # Len(key_pointer) THEN 2
               ELSE IF keylen = 0 THEN 3
               ELSE IF keylen > 255 THEN 4
               ELSE 0
    IN  [err |-> err,
         keylen |-> keylen,
         key |-> IF err = 0 THEN decode_key(key_pointer, keylen_hex, keylen) ELSE <<>>,
         value |-> IF special # NoStr THEN special ELSE strtok_rest(string)]

\* ------------------------------------------------------------- the lines
\* the definition lines the table is loaded with beside the calls above:
\* "1=X" "0=Y" "100=X" "0001=Y" "0100=X" "1" "0100" "001" "=1" "1="
TableLines ==
    { <<49, 61, 88>>, <<48, 61, 89>>, <<49, 48, 48, 61, 88>>, <<48, 48, 48, 49, 61, 89>>,
      <<48, 49, 48, 48, 61, 88>>, <<49>>, <<48, 49, 48, 48>>, <<48, 48, 49>>,
      <<61, 49>>, <<49, 61>> }

\* the most hex digits a HEXKEY has: 2 * 255
MaxHexDigits == 510

\* n times the digit 'F'
Digits(n) == [i \in 1..n |-> 70]

\* a key of 510 digits with a value, "FF..F=X", and a key of 511 digits
Line510 == Digits(MaxHexDigits) \o <<61, 88>>
Line511 == Digits(MaxHexDigits + 1) \o <<61, 88>>

\* the lines thingy_table_add_from_string is called with on its own:
\* "123=x" "aB=X" "Ab=Y" "0001=Y" "/aB" "*Ab" "/0001" "123"
\* "AB" "=aB" "/" "*" "1G=X" "G1" and the two long lines
LoadLines ==
    { <<49, 50, 51, 61, 120>>, <<97, 66, 61, 88>>, <<65, 98, 61, 89>>,
      <<48, 48, 48, 49, 61, 89>>, <<47, 97, 66>>, <<42, 65, 98>>,
      <<47, 48, 48, 48, 49>>, <<49, 50, 51>>, <<65, 66>>, <<61, 97, 66>>, <<47>>,
      <<42>>, <<49, 71, 61, 88>>, <<71, 49>>, Line510, Line511 }

\* the lines of the files: "1=X" "1" "G" "" " " "#1=Y" " 1=Y" "100=X"
FileLines ==
    { <<49, 61, 88>>, <<49>>, <<71>>, <<>>, <<32>>, <<35, 49, 61, 89>>,
      <<32, 49, 61, 89>>, <<49, 48, 48, 61, 88>> }

\* parse_line of each of these lines, worked out once
ParsedLines == [string \in TableLines \cup LoadLines \cup FileLines |-> parse_line(string)]

\* parse_line(string)
parsed(string) ==
    IF string \in DOMAIN ParsedLines THEN ParsedLines[string] ELSE parse_line(string)

\* thingy_table_add_from_string(tbl, string)
thingy_table_add_from_string(t, string, junk) ==
    LET p == parsed(string)
    IN  IF p.err # 0 THEN Ret(t, p.err)
        ELSE IF p.value # NoStr
        THEN LET r == thingy_table_assign(t, p.keylen, p.key, p.value, junk)
             IN  IF r.ret = -1 THEN r ELSE Ret(r.t, 0)
        ELSE LET r == thingy_table_delete(t, p.keylen, p.key)
             IN  IF r.ret = -1 THEN r ELSE Ret(r.t, 16 + r.ret)

\* ------------------------------------------------------------- actions
\* the call op returned r.ret and left the table r.t; length is the length
\* of the key it assigned, 0 when it assigned none
TableReturns(op, r, length) ==
    /\ ~r.full
    /\ longest_key' = r.t.longest_key
    /\ values' = r.t.values
    /\ mbseqs' = r.t.mbseqs
    /\ heap' = r.t.heap
    /\ status' = r.t.status
    /\ last' = Call(op, r.ret)
    /\ ever_max' = IF r.ret = 0 THEN Max(ever_max, length) ELSE ever_max
    /\ UNCHANGED <<evars, svars>>

\* a call made while no file is being loaded
Returns(op, r, length) ==
    /\ pc = "idle"
    /\ TableReturns(op, r, length)
    /\ UNCHANGED fvars

\* the junk that matters to an assign: the next field of the node it makes,
\* if it makes one, and the bytes behind the first 0x00 of its key
JunkFor(length, key) ==
    IF length >= 2 /\ key # <<>>
       /\ Walk(heap, Get(mbseqs, key[1], NULL), NULL, length, key, MaxNodes).kind = "end"
    THEN {j \in Junk : \A i \in 1..MaxKeyLen :
                          (FirstNul(key) = 0 \/ i <= FirstNul(key) \/ i > length)
                              => j.garbage[i] = 0}
    ELSE {NoJunk}

Assign ==
    /\ status = "ok"
    /\ \E k \in Keys \cup {<<>>}, v \in Values : \E junk \in JunkFor(Len(k), k) :
         Returns("assign", thingy_table_assign(Tbl, Len(k), k, v, junk), Len(k))

Delete ==
    /\ status = "ok"
    /\ \E k \in Keys \cup {<<>>} : Returns("delete", thingy_table_delete(Tbl, Len(k), k), 0)

\* thingy_table_delete with key == NULL: if (key == NULL) return 1
DeleteNull ==
    /\ status = "ok"
    /\ Returns("delete", Ret(Tbl, 1), 0)

\* thingy_table_search reads the table and changes nothing, unless the walk
\* leaves the chain
Lookup ==
    /\ status = "ok"
    /\ \E k \in Keys \cup {<<>>} :
         LET r == thingy_table_search(Tbl, Len(k), k)
         IN  IF r = Faulted THEN Returns("search", Died(Tbl, "fault"), 0)
             ELSE IF r = Hung THEN Returns("search", Died(Tbl, "hang"), 0)
             ELSE UNCHANGED <<tvars, evars, fvars, svars>>

\* thingy_table_add_from_string on one line
LoadLine(Lines) ==
    /\ status = "ok"
    /\ \E string \in Lines :
         \E junk \in JunkFor(parsed(string).keylen, parsed(string).key) :
           Returns("load", thingy_table_add_from_string(Tbl, string, junk),
                   parsed(string).keylen)

\* thingy_table_add_from_string on one of LoadLines
LoadString == LoadLine(LoadLines)

\* ------------------------------------------------------------- loading a file
\* the null FILE*
NoFile == [open |-> FALSE, unread |-> <<>>]

\* the handle fopen gives on a file of the lines f
Handle(f) == [open |-> TRUE, unread |-> f]

\* no file is open and thingy_table_add_from_file has not been called
no_file ==
    /\ pc = "idle"
    /\ file = NoFile
    /\ thingy_count = 0
    /\ o_thingies_loaded = 0
    /\ freturn = -1
    /\ fopens = 0
    /\ fcloses = 0

\* while ((*curstr == ' ') | (*curstr == '\t')) curstr++
RECURSIVE skip_whitespace(_)
skip_whitespace(s) ==
    IF s # <<>> /\ Head(s) \in {32, 9} THEN skip_whitespace(Tail(s)) ELSE s

\* The body of the while loop on the line buf, its final newline erased:
\* "skip" for a line the loop leaves with continue, "call" for a line it
\* hands to thingy_table_add_from_string
loop_body(buf) ==
    LET curstr == skip_whitespace(buf)
    IN  IF curstr = <<>> THEN "skip"           \* skip empty lines
        ELSE IF buf[1] = 35 THEN "skip"        \* buf[0] == '#'
        ELSE "call"

\* an fclose that leaves the handle open
fclose_leaks(f) == f

\* fclose(file): the handle is released
fclose(f) == NoFile

\* the most lines a file has
MaxLines == 3

\* the files of at most MaxLines lines
Files == UNION {[1..n -> FileLines] : n \in 0..MaxLines}

\* thingy_table_add_from_file: fopen gives a handle on one of the files fs
Fopen(fs) ==
    /\ status = "ok" /\ pc = "idle"
    /\ \E f \in fs : file' = Handle(f)
    /\ pc' = "loop"
    /\ thingy_count' = 0
    /\ freturn' = -1
    /\ fopens' = 1
    /\ fcloses' = 0
    /\ UNCHANGED <<o_thingies_loaded, tvars, evars, svars>>

\* thingy_table_add_from_file: if (!file) { perror(..); return 1; }
FopenFails ==
    /\ status = "ok" /\ pc = "idle"
    /\ file' = NoFile
    /\ freturn' = 1
    /\ fopens' = 0
    /\ fcloses' = 0
    /\ thingy_count' = 0
    /\ UNCHANGED <<pc, o_thingies_loaded, tvars, evars, svars>>

\* One turn of the while loop: fgets reads the next line.  A line that is
\* skipped leaves last = Call("skip", 0).
ReadLine ==
    /\ status = "ok" /\ pc = "loop" /\ file.unread # <<>>
    /\ LET buf == Head(file.unread)
           curstr == skip_whitespace(buf)
       IN  IF loop_body(buf) = "skip"
           THEN /\ last' = Call("skip", 0)
                /\ UNCHANGED <<longest_key, values, mbseqs, heap, status, ever_max, evars, svars>>
                /\ UNCHANGED thingy_count
           ELSE \E junk \in JunkFor(parsed(curstr).keylen, parsed(curstr).key) :
                  LET r == thingy_table_add_from_string(Tbl, curstr, junk)
                  IN  /\ TableReturns("load", r, parsed(curstr).keylen)
                      /\ thingy_count' = IF r.ret = 0 THEN thingy_count + 1 ELSE thingy_count
    /\ file' = Handle(Tail(file.unread))
    /\ UNCHANGED <<pc, o_thingies_loaded, freturn, fopens, fcloses>>

\* fgets returns NULL: *o_thingies_loaded = thingy_count; fclose(file); return 0
Fclose ==
    /\ status = "ok" /\ pc = "loop" /\ file.unread = <<>>
    /\ o_thingies_loaded' = thingy_count
    /\ file' = fclose(file)
    /\ fcloses' = fcloses + 1
    /\ freturn' = 0
    /\ pc' = "idle"
    /\ UNCHANGED <<thingy_count, fopens, tvars, evars, svars>>

\* ------------------------------------------------------------- the editor
\* the longest buffer and the deepest undo stack the editor is driven to
MaxBufLen == 2
MaxUndo == 2

\* the bytes typed and found in the file at the start: 0x00, 0xFF
EditBytes == {0, 255}
\* editor_increment_byte's amount
Deltas == {1, -1}

\* the buffer with its history, as one value
Ed == [contents |-> contents, undo |-> undo_stack, redo |-> redo_stack]

\* EditAction: Insert{offset, inserted_bytes}, Delete{offset, removed_bytes},
\* Replace{offset, old_bytes, new_bytes}
InsertAction(offset, bytes) == [kind |-> "Insert", offset |-> offset, old |-> <<>>, new |-> bytes]
DeleteAction(offset, bytes) == [kind |-> "Delete", offset |-> offset, old |-> bytes, new |-> <<>>]
ReplaceAction(offset, old, new) == [kind |-> "Replace", offset |-> offset, old |-> old, new |-> new]

\* the buffer b with bytes put in before the byte at offset (0-based)
insert_bytes(b, offset, bytes) == SubSeq(b, 1, offset) \o bytes \o SubSeq(b, offset + 1, Len(b))
\* the buffer b without the n bytes from offset on
delete_bytes(b, offset, n) == SubSeq(b, 1, offset) \o SubSeq(b, offset + n + 1, Len(b))
\* the buffer b with the bytes from offset on overwritten
replace_bytes(b, offset, bytes) ==
    [i \in 1..Len(b) |-> IF i > offset /\ i <= offset + Len(bytes) THEN bytes[i - offset] ELSE b[i]]

\* what a call of the editor reports and the editor it leaves
Done(e, res) == [e |-> e, res |-> res]

\* record that keeps the redo stack
record_keeps_redo(e, action) == [e EXCEPT !.undo = Append(e.undo, action)]

\* record(action): push on the undo stack, clear the redo stack
record(e, action) == [e EXCEPT !.undo = Append(e.undo, action), !.redo = <<>>]

\* editor_insert_byte_at_offset: insert_at(offset, byte, after), recorded
editor_insert_byte_at_offset(e, offset, x, after) ==
    LET at == IF after THEN offset + 1 ELSE offset
    IN  IF at > Len(e.contents) THEN Done(e, "RangeError")
        ELSE Done(record([e EXCEPT !.contents = insert_bytes(e.contents, at, <<x>>)],
                         InsertAction(at, <<x>>)), "ok")

\* editor_delete_char_at_offset: delete_at(offset), recorded
editor_delete_char_at_offset(e, offset) ==
    IF Len(e.contents) = 0 THEN Done(e, "EmptyBuffer")
    ELSE IF offset >= Len(e.contents) THEN Done(e, "RangeError")
    ELSE Done(record([e EXCEPT !.contents = delete_bytes(e.contents, offset, 1)],
                     DeleteAction(offset, <<e.contents[offset + 1]>>)), "ok")

\* editor_replace_byte_at_offset: replace_at(offset, byte), recorded
editor_replace_byte_at_offset(e, offset, x) ==
    IF offset >= Len(e.contents) THEN Done(e, "RangeError")
    ELSE Done(record([e EXCEPT !.contents = replace_bytes(e.contents, offset, <<x>>)],
                     ReplaceAction(offset, <<e.contents[offset + 1]>>, <<x>>)), "ok")

\* an increment that stops at 0x00 and 0xFF instead of wrapping
editor_increment_byte_clamped(e, offset, amount) ==
    IF offset >= Len(e.contents) THEN Done(e, "RangeError")
    ELSE editor_replace_byte_at_offset(e, offset,
                                       Max(0, Min(255, e.contents[offset + 1] + amount)))

\* editor_increment_byte: increment_at(offset, delta), recorded as a Replace
editor_increment_byte(e, offset, amount) ==
    IF offset >= Len(e.contents) THEN Done(e, "RangeError")
    ELSE editor_replace_byte_at_offset(e, offset, (e.contents[offset + 1] + amount) % 256)

\* an inverse that takes a Delete's bytes back in one byte too far
apply_inverse_shifted(b, action) ==
    CASE action.kind = "Insert" -> delete_bytes(b, action.offset, Len(action.new))
      [] action.kind = "Delete" -> insert_bytes(b, Min(action.offset + 1, Len(b)), action.old)
      [] action.kind = "Replace" -> replace_bytes(b, action.offset, action.old)

\* the structural inverse of an action, applied to the buffer
apply_inverse(b, action) ==
    CASE action.kind = "Insert" -> delete_bytes(b, action.offset, Len(action.new))
      [] action.kind = "Delete" -> insert_bytes(b, action.offset, action.old)
      [] action.kind = "Replace" -> replace_bytes(b, action.offset, action.old)

\* the forward action, applied to the buffer again
apply_forward(b, action) ==
    CASE action.kind = "Insert" -> insert_bytes(b, action.offset, action.new)
      [] action.kind = "Delete" -> delete_bytes(b, action.offset, Len(action.old))
      [] action.kind = "Replace" -> replace_bytes(b, action.offset, action.new)

\* editor_undo
editor_undo(e) ==
    IF e.undo = <<>> THEN Done(e, "NoMoreUndo")
    ELSE LET action == e.undo[Len(e.undo)]
         IN  Done([e EXCEPT !.contents = apply_inverse(e.contents, action),
                            !.undo = SubSeq(e.undo, 1, Len(e.undo) - 1),
                            !.redo = Append(e.redo, action)], "ok")

\* a redo that does not put the action back on the undo stack
editor_redo_forgets(e) ==
    IF e.redo = <<>> THEN Done(e, "NoMoreRedo")
    ELSE LET action == e.redo[Len(e.redo)]
         IN  Done([e EXCEPT !.contents = apply_forward(e.contents, action),
                            !.redo = SubSeq(e.redo, 1, Len(e.redo) - 1)], "ok")

\* editor_redo
editor_redo(e) ==
    IF e.redo = <<>> THEN Done(e, "NoMoreRedo")
    ELSE LET action == e.redo[Len(e.redo)]
         IN  Done([e EXCEPT !.contents = apply_forward(e.contents, action),
                            !.redo = SubSeq(e.redo, 1, Len(e.redo) - 1),
                            !.undo = Append(e.undo, action)], "ok")

\* the calls that change the buffer and record an action
Mutations == {"insert", "delete", "replace", "increment"}

\* A call of the editor: op reported d.res and left the editor d.e.  A run is
\* a series of successful mutations; trail keeps the buffer each of them
\* found, and undone counts the undos that follow the run, up to its length.
EdReturnsOf(op, d, offset, amount) ==
    /\ contents' = d.e.contents
    /\ undo_stack' = d.e.undo
    /\ redo_stack' = d.e.redo
    /\ elast' = [op |-> op, res |-> d.res,
                  dropped |-> IF op \in Mutations /\ d.res = "ok" THEN Len(redo_stack) ELSE 0,
                  held |-> IF op \in {"undo", "redo"}
                           THEN Len(undo_stack) + Len(redo_stack) ELSE 0,
                  offset |-> offset, amount |-> amount]
    /\ before' = IF op = "undo" /\ d.res = "ok" THEN <<Ed>>
                 ELSE IF op = "redo" /\ elast.op = "undo" THEN before
                 ELSE <<>>
    /\ IF op \in Mutations
       THEN IF d.res # "ok" THEN UNCHANGED <<trail, undone>>
            ELSE /\ trail' = IF undone = 0 THEN Append(trail, contents) ELSE <<contents>>
                 /\ undone' = 0
       ELSE IF op = "undo" /\ undone < Len(trail)
       THEN /\ trail' = trail
            /\ undone' = undone + 1
       ELSE /\ trail' = <<>>
            /\ undone' = 0
    /\ UNCHANGED <<tvars, fvars, svars>>

\* a call that is no increment
EdReturns(op, d) == EdReturnsOf(op, d, 0, 0)

\* a mutation is called while the bounds leave room for what it records
Room == Len(undo_stack) < MaxUndo

InsertByte ==
    /\ Room /\ Len(contents) < MaxBufLen
    /\ \E offset \in 0..MaxBufLen, x \in EditBytes, after \in BOOLEAN :
         EdReturns("insert", editor_insert_byte_at_offset(Ed, offset, x, after))

DeleteChar ==
    /\ Room
    /\ \E offset \in 0..MaxBufLen : EdReturns("delete", editor_delete_char_at_offset(Ed, offset))

ReplaceByte ==
    /\ Room
    /\ \E offset \in 0..MaxBufLen, x \in EditBytes :
         EdReturns("replace", editor_replace_byte_at_offset(Ed, offset, x))

IncrementByte ==
    /\ Room
    /\ \E offset \in 0..MaxBufLen, amount \in Deltas :
         EdReturnsOf("increment", editor_increment_byte(Ed, offset, amount),
                     IF offset < Len(contents) THEN offset ELSE 0,
                     IF offset < Len(contents) THEN amount ELSE 0)

Undo == EdReturns("undo", editor_undo(Ed))
Redo == EdReturns("redo", editor_redo(Ed))

\* an editor with a buffer and no history
editor_init(b) ==
    /\ contents = b
    /\ undo_stack = <<>>
    /\ redo_stack = <<>>
    /\ elast = [op |-> "none", res |-> "ok", dropped |-> 0, held |-> 0,
                offset |-> 0, amount |-> 0]
    /\ before = <<>>
    /\ trail = <<>>
    /\ undone = 0

\* the buffers of at most n bytes
Buffers(n) == UNION {[1..m -> EditBytes] : m \in 0..n}

\* ------------------------------------------------------------- the search string
\* the longest string editor_parse_search_string is called with
MaxPatLen == 5

\* the characters of those strings: '\', 'x', the hex digits '4' and 'f',
\* and 'Z', which is none
PatChars == {92, 120, 52, 102, 90}

\* "ab\x41\\c"
ExamplePattern == <<97, 98, 92, 120, 52, 49, 92, 92, 99>>

Patterns == UNION {[1..n -> PatChars] : n \in 0..MaxPatLen} \cup {ExamplePattern}

\* a hex2bin that takes the two digits in the wrong order
hex2bin_swapped(X, Y) == 16 * hex_value(Y) + hex_value(X)

\* the byte of the hex code XY
hex2bin(X, Y) == 16 * hex_value(X) + hex_value(Y)

\* err_info of PARSE_INVALID_HEX put at the digit that is not one
invalid_hex_at_offender(s, X) == IF IsHexDigit(s[X + 1]) THEN X + 1 ELSE X

\* err_info of PARSE_INVALID_HEX, X the offset of the first character
\* after "\x": pointer "XY..." where XY is the invalid hex code
invalid_hex_info(s, X) == X

\* what a call returns: ret, the bytes appended to parsedstr, err_info
Parsed(ret, out, info) == [ret |-> ret, out |-> out, info |-> info]

\* editor_parse_search_string from the character at index i on, out the
\* bytes appended so far.  The offset of the character at index i is i - 1.
\* A string that ends inside an escape is reported as UnexpectedEnd
\* with err_info = inputstr, as every error but the two the header names.
RECURSIVE parse_from(_, _, _)
parse_from(s, i, out) ==
    IF i > Len(s) THEN Parsed("PARSE_SUCCESS", out, 0)
    ELSE IF s[i] # 92 THEN parse_from(s, i + 1, Append(out, s[i]))
    ELSE IF i + 1 > Len(s) THEN Parsed("UnexpectedEnd", out, 0)
    ELSE IF s[i + 1] = 92 THEN parse_from(s, i + 2, Append(out, 92))
    ELSE IF s[i + 1] = 120
    THEN IF i + 3 > Len(s) THEN Parsed("UnexpectedEnd", out, 0)
         ELSE IF ~IsHexDigit(s[i + 2]) \/ ~IsHexDigit(s[i + 3])
         THEN Parsed("PARSE_INVALID_HEX", out, invalid_hex_info(s, i + 1))
         ELSE parse_from(s, i + 4, Append(out, hex2bin(s[i + 2], s[i + 3])))
    ELSE Parsed("PARSE_INVALID_ESCAPE", out, i)

\* editor_parse_search_string(inputstr, parsedstr, err_info), parsedstr empty
editor_parse_search_string(s) == parse_from(s, 1, <<>>)

\* On failure parsedstr is undefined: it may hold nothing, or the bytes
\* appended before the error.
Undefined(out) == {<<>>, out}

\* the string s is about to be parsed into an empty parsedstr
search_init(s) ==
    /\ inputstr = s
    /\ parsedstr = <<>>
    /\ parse_ret = "none"
    /\ err_info = 0

\* the call of editor_parse_search_string on inputstr
ParseSearchString ==
    /\ parse_ret = "none"
    /\ LET r == editor_parse_search_string(inputstr)
       IN  /\ parse_ret' = r.ret
           /\ err_info' = r.info
           /\ parsedstr' \in IF r.ret = "PARSE_SUCCESS" THEN {r.out} ELSE Undefined(r.out)
    /\ UNCHANGED <<inputstr, tvars, evars, fvars>>

vars == <<tvars, evars, fvars, svars>>

\* the table, called and loaded in any order
Init == thingy_table_init /\ editor_init(<<>>) /\ no_file /\ search_init(<<>>)
Load == LoadLine(TableLines)
Next == Assign \/ Delete \/ DeleteNull \/ Lookup \/ Load
Spec == Init /\ [][Next]_vars

\* the table, loaded line by line
NextLoad == LoadString \/ Lookup
SpecLoad == Init /\ [][NextLoad]_vars

\* the table, loaded from files
LoadFile == Fopen(Files)
NextFile == LoadFile \/ FopenFails \/ ReadLine \/ Fclose
SpecFile == Init /\ [][NextFile]_vars

\* the search strings, parsed
InitSearch ==
    thingy_table_init /\ editor_init(<<>>) /\ no_file /\ \E s \in Patterns : search_init(s)
NextSearch == ParseSearchString
SpecSearch == InitSearch /\ [][NextSearch]_vars

\* the editor, from any starting buffer
InitHistory == thingy_table_init /\ no_file /\ search_init(<<>>) /\ \E b \in Buffers(MaxBufLen) : editor_init(b)
NextHistory == InsertByte \/ DeleteChar \/ ReplaceByte \/ IncrementByte \/ Undo \/ Redo
SpecHistory == InitHistory /\ [][NextHistory]_vars

\* ------------------------------------------------------------- the table's claims
\* the step is a call of op that returned (or died) as r says
Step(op, r) == ~r.full /\ Tbl' = r.t /\ last' = Call(op, r.ret)

\* the nodes of the chain that starts at the link p
RECURSIVE ChainFrom(_, _, _)
ChainFrom(hp, p, fuel) ==
    IF p = NULL \/ fuel = 0 THEN {}
    ELSE IF ~hp[p].live THEN {}
    ELSE {p} \cup ChainFrom(hp, hp[p].next, fuel - 1)

\* the nodes of all chains
ChainNodes(t) == UNION {ChainFrom(t.heap, t.mbseqs[b], MaxNodes) : b \in DOMAIN t.mbseqs}

\* the key k has an entry: an occupied direct slot, or a chain node made for it
Present(t, k) ==
    IF Len(k) = 1 THEN Get(t.values, k[1], NoStr) # NoStr
    ELSE \E a \in ChainFrom(t.heap, Get(t.mbseqs, k[1], NULL), MaxNodes) : t.heap[a].okey = k

\* the keys that have an entry, and the values a key's entries hold
StoredKeys(t) == {k \in Keys : Present(t, k)}
ValuesOf(t, k) ==
    IF Len(k) = 1 THEN {Get(t.values, k[1], NoStr)}
    ELSE {t.heap[a].value : a \in {c \in ChainNodes(t) : t.heap[c].okey = k}}

\* C1: after thingy_table_assign(tbl, L, key, v) returns 0,
\* thingy_table_search(tbl, L, key) returns v, for every key of 1..MaxKeyLen
\* bytes, those with 0x00 bytes included, whether or not the key had a value.
C1_AssignThenSearch ==
    [][\A k \in Keys, v \in Values : \A junk \in Junk :
          LET r == thingy_table_assign(Tbl, Len(k), k, v, junk)
          IN  (Step("assign", r) /\ r.ret = 0) => thingy_table_search(Tbl', Len(k), k) = v]_vars

\* C5: thingy_table_delete of a key that has an entry returns 0 and the key
\* is not found afterwards; of a key that has none it returns 1 and leaves
\* the table, longest_key included, as it was.
C5_Delete ==
    [][\A k \in Keys :
          LET r == thingy_table_delete(Tbl, Len(k), k)
          IN  Step("delete", r) =>
                IF Present(Tbl, k)
                THEN r.ret = 0 /\ thingy_table_search(Tbl', Len(k), k) = NoStr
                ELSE r.ret = 1 /\ Tbl' = Tbl]_vars

\* C6: an assign or a delete of the key k leaves the result of
\* thingy_table_search for every other key as it was.
C6_Frame ==
    [][\A k \in Keys :
          ( \/ \E v \in Values, junk \in Junk :
                  Step("assign", thingy_table_assign(Tbl, Len(k), k, v, junk))
            \/ Step("delete", thingy_table_delete(Tbl, Len(k), k)) )
          => \A k2 \in Keys \ {k} :
                thingy_table_search(Tbl', Len(k2), k2) = thingy_table_search(Tbl, Len(k2), k2)]_vars

\* the windows of 1..MaxKeyLen + 1 bytes
Windows == UNION {KeysOfLen(n) : n \in 1..(MaxKeyLen + 1)}

IsPrefix(k, w) == Len(k) <= Len(w) /\ SubSeq(w, 1, Len(k)) = k

\* the first hit of thingy_table_search with the lengths n, n - 1, .. 1
RECURSIVE FirstHit(_, _, _)
FirstHit(t, w, n) ==
    IF n = 0 THEN NoStr
    ELSE LET r == thingy_table_search(t, n, SubSeq(w, 1, n))
         IN  IF r # NoStr THEN r ELSE FirstHit(t, w, n - 1)

\* the consumer's resolution of a window
MaximalMunch(t, w) == FirstHit(t, w, Min(thingy_table_longest_key(t), Len(w)))

\* C7: the first hit of the searches with the lengths min(longest_key, W),
\* .. 1 is the value of the longest key with an entry that is a prefix of
\* the window, and there is no hit only when no such key exists.
C7_MaximalMunch ==
    status = "ok" =>
      \A w \in Windows :
        LET ks == {k \in StoredKeys(Tbl) : IsPrefix(k, w)}
        IN  IF ks = {} THEN MaximalMunch(Tbl, w) = NoStr
            ELSE MaximalMunch(Tbl, w) \in
                   ValuesOf(Tbl, CHOOSE k \in ks : \A k2 \in ks : Len(k2) <= Len(k))

\* C8: thingy_table_longest_key is the greatest length of a key that an
\* assignment which returned 0 had (0 for a fresh table); no step lowers it,
\* and no delete, of a key or by a loaded line, changes it.
C8_LongestKey ==
    /\ [](thingy_table_longest_key(Tbl) = ever_max)
    /\ [][/\ longest_key' >= longest_key
          /\ (last'.op = "delete" \/ (last'.op = "load" /\ last'.ret >= 16))
                => longest_key' = longest_key]_vars

\* a delete that returned 0 took the last key of the longest length out of
\* the table, and longest_key stays
C8_Witness ==
    /\ last = Call("delete", 0)
    /\ longest_key = 2
    /\ StoredKeys(Tbl) = {}

\* C9: no two nodes of the chains have the same length and are for the same
\* key bytes.
C9_OneValuePerKey ==
    \A a, b \in ChainNodes(Tbl) :
       (a # b) => ~(heap[a].length = heap[b].length /\ heap[a].okey = heap[b].okey)

\* the first '=' of a line, 0 when it has none
FirstEq(line) ==
    IF \E i \in 1..Len(line) : line[i] = 61
    THEN CHOOSE i \in 1..Len(line) : line[i] = 61 /\ \A j \in 1..(i - 1) : line[j] # 61
    ELSE 0

\* the line is HEXKEY=VALUE with a HEXKEY of one or more hex digits
IsAssignLine(line) ==
    FirstEq(line) >= 2 /\ \A j \in 1..(FirstEq(line) - 1) : IsHexDigit(line[j])

\* the bytes a HEXKEY stands for: the digits, after a '0' in front of an odd
\* number of them, taken in pairs
HexDigitValue(c) == IF c <= 57 THEN c - 48 ELSE IF c <= 70 THEN c - 55 ELSE c - 87
HexKeyBytes(hex) ==
    LET odd == Len(hex) % 2
        padded(i) == IF i - odd = 0 THEN 48 ELSE hex[i - odd]
    IN  [b \in 1..((Len(hex) + odd) \div 2) |->
            16 * HexDigitValue(padded(2 * b - 1)) + HexDigitValue(padded(2 * b))]

\* C10: thingy_table_add_from_string on HEXKEY=VALUE returns 0 and assigns
\* what follows the first '=' to the key HEXKEY stands for, and no line that
\* holds a '=' makes it delete.
C10_AssignLine ==
    [][\A line \in TableLines : \A junk \in Junk :
          LET r == thingy_table_add_from_string(Tbl, line, junk)
              key == HexKeyBytes(SubSeq(line, 1, FirstEq(line) - 1))
              value == SubSeq(line, FirstEq(line) + 1, Len(line))
          IN  Step("load", r) =>
                /\ FirstEq(line) # 0 => r.ret \notin {16, 17}
                /\ IsAssignLine(line) =>
                     /\ r.ret = 0
                     /\ \E j2 \in Junk :
                          Tbl' = thingy_table_assign(Tbl, Len(key), key, value, j2).t]_vars

\* C19: every key the table holds, in an occupied direct slot or a chain
\* node, has a length of at most longest_key, so that the fast reject
\* length > longest_key of thingy_table_search and thingy_table_delete
\* never meets a key with an entry.
C19_KeysWithinLongest ==
    /\ DOMAIN values # {} => longest_key >= 1
    /\ \A a \in Addr : heap[a].live => heap[a].length <= longest_key
    /\ \A k \in StoredKeys(Tbl) : Len(k) <= longest_key

\* a delete took one of two keys of two bytes out; a slot and a node remain
C19_Witness ==
    /\ last = Call("delete", 0)
    /\ DOMAIN values # {}
    /\ \E a \in Addr : heap[a].live /\ heap[a].length = 2
    /\ \E a \in Addr : ~heap[a].live
    /\ longest_key = 2

\* the chain that starts at the link p runs over live nodes to a null link
RECURSIVE EndsInNull(_, _, _)
EndsInNull(hp, p, fuel) ==
    IF p = NULL THEN TRUE
    ELSE IF ~hp[p].live \/ fuel = 0 THEN FALSE
    ELSE EndsInNull(hp, hp[p].next, fuel - 1)

\* C20: every chain is finite and acyclic, ends in a null link and holds
\* only nodes that assign made and delete has not freed; the node assign
\* appends has a null next; no walk of a chain leaves it or runs forever.
C20_ChainsWellFormed ==
    /\ status = "ok"
    /\ \A b \in DOMAIN mbseqs : EndsInNull(heap, mbseqs[b], MaxNodes)
    /\ \A a \in Addr : heap[a].live => (heap[a].next = NULL \/ heap[heap[a].next].live)

\* ------------------------------------------------------------- the editor's claims
\* C2: after a run of n successful recorded mutations and then n undos the
\* buffer is the buffer the run found, bytes and length, and none of those
\* undos reports NoMoreUndo.  (undone counts the undos after the run; the
\* buffer the last undone mutations found is trail[Len(trail) - undone + 1].)
C2_UndoRestores ==
    undone > 0 =>
      /\ contents = trail[Len(trail) - undone + 1]
      /\ elast.op = "undo" => elast.res = "ok"

\* a run of two mutations, one of them changing the length, undone whole
C2_Witness ==
    /\ undone = 2 /\ Len(trail) = 2
    /\ elast.op = "undo"
    /\ Len(trail[1]) # Len(trail[2])

\* C3: right after a recorded mutation the redo stack is empty, and a redo
\* called then reports NoMoreRedo and leaves buffer and undo stack alone.
C3_RecordClearsRedo ==
    /\ []((elast.op \in Mutations /\ elast.res = "ok") => redo_stack = <<>>)
    /\ [][(elast.op \in Mutations /\ elast.res = "ok" /\ Redo)
            => (elast'.res = "NoMoreRedo" /\ contents' = contents
                /\ undo_stack' = undo_stack)]_vars

\* a mutation was recorded after undos and dropped what could be redone
C3_Witness ==
    /\ elast.op \in Mutations /\ elast.res = "ok"
    /\ elast.dropped > 0
    /\ redo_stack = <<>>

\* C4: an undo directly followed by a redo leaves buffer, undo stack and
\* redo stack as the undo found them; neither of the two records an action:
\* the two stacks together hold as many actions after as before.
C4_UndoRedo ==
    /\ (elast.op = "redo" /\ before # <<>>) => Ed = before[1]
    /\ elast.op \in {"undo", "redo"} => Len(undo_stack) + Len(redo_stack) = elast.held

\* an undo and then a redo, with more left to redo
C4_Witness ==
    /\ elast.op = "redo" /\ elast.res = "ok"
    /\ before # <<>>
    /\ redo_stack # <<>>
    /\ undo_stack # <<>>

\* n brought into 0..255 by one step of 256
Wrap(n) == IF n > 255 THEN n - 256 ELSE IF n < 0 THEN n + 256 ELSE n

\* C17: an increment by delta at a valid offset leaves (b + delta) mod 256
\* where the byte b was (0x00 after 0xFF + 1, 0xFF after 0x00 - 1), every
\* other byte and the length as they were, and a Replace action of b by
\* the new byte on top of the undo stack; an undo called then brings the
\* buffer back to what the increment found (trail[Len(trail)]).
C17_Increment ==
    (elast.op = "increment" /\ elast.res = "ok") =>
       LET found == trail[Len(trail)]
           at == elast.offset + 1
           b == found[at]
       IN  /\ Len(contents) = Len(found)
           /\ contents[at] = Wrap(b + elast.amount)
           /\ (b = 255 /\ elast.amount = 1) => contents[at] = 0
           /\ (b = 0 /\ elast.amount = -1) => contents[at] = 255
           /\ \A i \in 1..Len(found) : i # at => contents[i] = found[i]
           /\ undo_stack # <<>>
           /\ undo_stack[Len(undo_stack)]
                 = ReplaceAction(elast.offset, <<b>>, <<Wrap(b + elast.amount)>>)
           /\ editor_undo(Ed).res = "ok"
           /\ editor_undo(Ed).e.contents = found

\* 0xFF was incremented to 0x00 in a buffer of two bytes, and the undo
\* brought it back
C17_Witness ==
    /\ elast.op = "undo" /\ elast.res = "ok"
    /\ redo_stack # <<>>
    /\ redo_stack[Len(redo_stack)] = ReplaceAction(1, <<255>>, <<0>>)
    /\ Len(contents) = 2 /\ contents[2] = 255

\* ------------------------------------------------------------- the claims on loading
\* the definition language of a line: a line without its leading blanks
RECURSIVE Trimmed(_)
Trimmed(line) ==
    IF line = <<>> THEN line
    ELSE IF line[1] = 32 \/ line[1] = 9 THEN Trimmed(Tail(line)) ELSE line

\* a blank line, a line of blanks, a line that starts with '#'
IsIgnoredLine(line) == Trimmed(line) = <<>> \/ line[1] = 35

\* one or more hex digits, 510 at most
IsHexKey(hex) == Len(hex) \in 1..510 /\ \A j \in 1..Len(hex) : IsHexDigit(hex[j])

\* HEXKEY=VALUE, /HEXKEY or *HEXKEY
IsAssignment(line) ==
    \/ FirstEq(line) >= 2 /\ IsHexKey(SubSeq(line, 1, FirstEq(line) - 1))
    \/ Len(line) >= 2 /\ line[1] \in {42, 47} /\ IsHexKey(Tail(line))

\* HEXKEY with no '='
IsDeletion(line) == IsHexKey(line)

\* the line is one that is applied to the table t: an assignment, or a
\* deletion of a key that has an entry
IsApplied(t, line) ==
    /\ ~IsIgnoredLine(line)
    /\ \/ IsAssignment(Trimmed(line))
       \/ IsDeletion(Trimmed(line)) /\ Present(t, HexKeyBytes(Trimmed(line)))

\* C11: every line of the file is read in order whatever the lines before
\* it were; a blank line, a line of blanks and a '#' line leave the table as
\* it was; thingy_count goes up by one for a line that is applied (an
\* assignment, a deletion of a key that has an entry) and stays for any
\* other; at the end of the file the function returns 0 with
\* *o_thingies_loaded = thingy_count.
C11_LoadFile ==
    /\ [][(pc = "loop" /\ file.unread # <<>>) =>
            LET line == Head(file.unread)
            IN  /\ pc' = "loop" /\ status' = "ok"
                /\ file'.unread = Tail(file.unread)
                /\ IsIgnoredLine(line) => Tbl' = Tbl
                /\ thingy_count' = thingy_count + (IF IsApplied(Tbl, line) THEN 1 ELSE 0)]_vars
    /\ [][(pc = "loop" /\ file.unread = <<>>) =>
            (pc' = "idle" /\ freturn' = 0 /\ o_thingies_loaded' = thingy_count)]_vars

\* the HEXKEY of a line: what stands before the first '=', or the whole line
\* when it has none, without a leading '/' or '*'
HexKeyOf(line) ==
    LET head == IF FirstEq(line) = 0 THEN line ELSE SubSeq(line, 1, FirstEq(line) - 1)
    IN  IF head # <<>> /\ head[1] \in {42, 47} THEN Tail(head) ELSE head

\* the HEXKEY is empty, holds a character that is no hex digit, or has more
\* than 510 digits
IsMalformed(line) == ~IsHexKey(HexKeyOf(line))

\* the key of 255 bytes 0xFF
Key255 == [i \in 1..255 |-> 255]

\* C12: thingy_table_add_from_string on a line whose HEXKEY is empty (a line
\* that begins with '=', the lines "/" and "*"), holds a character outside
\* [0-9A-Fa-f] or has more than 510 digits returns non-zero and leaves the
\* table, longest_key included, as it was; a HEXKEY of 510 digits is
\* accepted as a key of 255 bytes.
C12_Malformed ==
    [][\A line \in LoadLines : \A junk \in Junk :
          LET r == thingy_table_add_from_string(Tbl, line, junk)
          IN  Step("load", r) =>
                /\ IsMalformed(line) => (r.ret # 0 /\ Tbl' = Tbl)
                /\ line = Line510 =>
                     (r.ret = 0 /\ longest_key' = 255 /\ Present(Tbl', Key255))]_vars

\* C13: for a line that assigns, with a HEXKEY of n <= 510 hex digits of
\* either case, the key decoded has (n + 1) \div 2 bytes and is the digits
\* taken in pairs after a '0' in front of an odd number of them, and after
\* the line the table holds an entry for exactly that key, which
\* thingy_table_search finds.
C13_HexKey ==
    [][\A line \in LoadLines : \A junk \in Junk :
          LET r == thingy_table_add_from_string(Tbl, line, junk)
              hex == HexKeyOf(line)
              key == HexKeyBytes(hex)
          IN  (Step("load", r) /\ IsAssignment(line)) =>
                /\ parsed(line).keylen = (Len(hex) + 1) \div 2
                /\ parsed(line).key = key
                /\ r.ret = 0
                /\ Present(Tbl', key)
                /\ thingy_table_search(Tbl', Len(key), key) \notin {NoStr, Faulted, Hung}]_vars

\* the bytes a string takes in memory, its closing NUL included
Storage(v) == v \o <<0>>

\* C14: a line /HEXKEY with a valid HEXKEY returns 0 and leaves the key
\* with the value "\n", a line *HEXKEY returns 0 and leaves the key with a
\* value that is one null byte in memory; neither deletes, and the key is
\* found afterwards.
C14_SpecialLines ==
    [][\A line \in LoadLines : \A junk \in Junk :
          LET r == thingy_table_add_from_string(Tbl, line, junk)
              key == HexKeyBytes(HexKeyOf(line))
              found == thingy_table_search(Tbl', Len(key), key)
          IN  (Step("load", r) /\ line[1] \in {42, 47} /\ ~IsMalformed(line)) =>
                /\ r.ret = 0
                /\ found \notin {NoStr, Faulted, Hung}
                /\ line[1] = 47 => found = <<10>>
                /\ line[1] = 42 => Storage(found) = <<0>>]_vars

\* C18: a call of thingy_table_add_from_file that got a handle from fopen
\* has made one fclose when it returns and holds no handle; it makes no
\* fclose before the end of the file; a call whose fopen failed returns 1,
\* makes no fclose, holds no handle and leaves the table as it was.
C18_HandleReleased ==
    /\ [](pc = "loop" => (file.open /\ fopens = 1 /\ fcloses = 0 /\ freturn = -1))
    /\ []((pc = "idle" /\ freturn = 0) => (fopens = 1 /\ fcloses = 1 /\ ~file.open))
    /\ []((pc = "idle" /\ freturn = 1) => (fopens = 0 /\ fcloses = 0 /\ ~file.open))
    /\ [][freturn' = 1 => Tbl' = Tbl]_vars

\* a file with a malformed line, a blank line and a valid line was read to
\* its end and closed
C18_Witness ==
    /\ pc = "idle" /\ freturn = 0 /\ fcloses = 1
    /\ o_thingies_loaded = 1
    /\ last = Call("skip", 0)
    /\ Get(values, 1, NoStr) = <<88>>

\* ------------------------------------------------------------- the search string's claims
\* the objects of a search string: at index i stands a plain character, the
\* escape "\\", or "\xHH" with two hex digits
IsPlain(s, i) == s[i] # 92
IsBackslash(s, i) == s[i] = 92 /\ i + 1 <= Len(s) /\ s[i + 1] = 92
IsHexCode(s, i) ==
    /\ s[i] = 92 /\ i + 3 <= Len(s) /\ s[i + 1] = 120
    /\ IsHexDigit(s[i + 2]) /\ IsHexDigit(s[i + 3])

\* the number of characters of the object at index i, 0 when none stands there
ObjectLen(s, i) ==
    IF IsPlain(s, i) THEN 1 ELSE IF IsBackslash(s, i) THEN 2 ELSE IF IsHexCode(s, i) THEN 4 ELSE 0

\* the byte the object at index i stands for
ObjectByte(s, i) ==
    IF IsPlain(s, i) THEN s[i]
    ELSE IF IsBackslash(s, i) THEN 92
    ELSE 16 * HexDigitValue(s[i + 2]) + HexDigitValue(s[i + 3])

\* the indices where the objects of s start, from index i on, up to and
\* with the first index where no object stands
RECURSIVE ObjectStarts(_, _)
ObjectStarts(s, i) ==
    IF i > Len(s) THEN <<>>
    ELSE IF ObjectLen(s, i) = 0 THEN <<i>>
    ELSE <<i>> \o ObjectStarts(s, i + ObjectLen(s, i))

\* the index of the backslash of the first escape of s that is no object,
\* 0 when s is well formed
FirstBad(s) ==
    LET starts == ObjectStarts(s, 1)
    IN  IF starts # <<>> /\ ObjectLen(s, starts[Len(starts)]) = 0 THEN starts[Len(starts)] ELSE 0

\* C15: a well-formed string is parsed with success into the bytes of its
\* objects in input order, no more bytes than the string has characters;
\* "ab\x41\\c" gives 0x61 0x62 0x41 0x5C 0x63.
C15_WellFormed ==
    (parse_ret # "none" /\ FirstBad(inputstr) = 0) =>
       LET starts == ObjectStarts(inputstr, 1)
       IN  /\ parse_ret = "PARSE_SUCCESS"
           /\ parsedstr = [k \in 1..Len(starts) |-> ObjectByte(inputstr, starts[k])]
           /\ Len(parsedstr) <= Len(inputstr)
           /\ inputstr = ExamplePattern => parsedstr = <<97, 98, 65, 92, 99>>

\* "Z\x4f" was parsed, a plain character and a hex code
C15_Witness ==
    /\ parse_ret = "PARSE_SUCCESS"
    /\ inputstr = <<90, 92, 120, 52, 102>>
    /\ parsedstr = <<90, 79>>

\* the error of a string whose first bad escape starts at index b: ret, and
\* the offset err_info is for (-1: any), hexat the offset for an invalid
\* hex code whose first character has the offset X
ErrorOf(s, b, hexat(_)) ==
    IF b = Len(s) THEN [ret |-> "UnexpectedEnd", info |-> -1]
    ELSE IF s[b + 1] # 120 THEN [ret |-> "PARSE_INVALID_ESCAPE", info |-> b]
    ELSE IF b + 3 <= Len(s) THEN [ret |-> "PARSE_INVALID_HEX", info |-> hexat(b + 1)]
    ELSE [ret |-> "any", info |-> -1]

\* the call reports the error e
Reports(e) ==
    /\ parse_ret # "PARSE_SUCCESS"
    /\ e.ret # "any" => parse_ret = e.ret
    /\ e.info # -1 => err_info = e.info

\* the offset of the first of the two characters at the offsets X, X + 1
\* of inputstr that is no hex digit
Offender(X) == IF IsHexDigit(inputstr[X + 1]) THEN X + 1 ELSE X

\* the offset X itself
StartOfCode(X) == X

\* C16 as claimed: a string is parsed with success or with one error; "\x"
\* before two characters of which one is no hex digit gives InvalidHex
\* located at the first of them that is none; a backslash before a
\* character other than 'x' and '\' gives InvalidEscape located at that
\* character; a lone backslash at the end gives UnexpectedEnd; on failure
\* no bytes are produced.
C16_ErrorsLocated ==
    parse_ret # "none" =>
       IF FirstBad(inputstr) = 0 THEN parse_ret = "PARSE_SUCCESS"
       ELSE /\ Reports(ErrorOf(inputstr, FirstBad(inputstr), Offender))
            /\ parsedstr = <<>>

\* C16 as amended: InvalidHex is located at the first of the two
\* characters after "\x", whichever of them is no hex digit, and on
\* failure parsedstr is left undefined.
C16_ErrorsLocatedAtCode ==
    parse_ret # "none" =>
       IF FirstBad(inputstr) = 0 THEN parse_ret = "PARSE_SUCCESS"
       ELSE Reports(ErrorOf(inputstr, FirstBad(inputstr), StartOfCode))

\* "4\x4Z" was parsed: the first digit of the hex code is one, the second
\* is not
C16_Witness ==
    /\ inputstr = <<52, 92, 120, 52, 90>>
    /\ parse_ret = "PARSE_INVALID_HEX"
    /\ err_info = 3

====
